---- MODULE Spec2Model ----
(***************************************************************************)
(* Model of the SecondOp_FHE case registry (contracts/SecondOp_FHE.sol).   *)
(*                                                                         *)
(* Every external function of the contract is one atomic action: an EVM    *)
(* transaction runs to completion or reverts as a whole, and transactions  *)
(* are totally ordered by the chain, so two "concurrent" submissions are   *)
(* two actions taken in either order.  A transaction that reverts leaves   *)
(* every variable as it was.  What a call does is computed by an outcome   *)
(* operator (the guards) and an effect operator (the contract's state      *)
(* after the call), so that a claim about a call can be stated for every   *)
(* argument list in every reachable state.                                 *)
(***************************************************************************)
EXTENDS Integers, Sequences, FiniteSets, TLC

\* ---------------------------------------------------------------- bounds
\* Cap on the number of creates that commit (the length of caseIds).
MaxCases == 2
\* Largest block timestamp of the model.
MaxTime == 2

\* The initialize() calls the model lets be in flight at once.
MaxInFlight == 2

\* ------------------------------------------------------------ input sets
CaseIdSet == {"A", "B"}
PatientIdSet == {"", "p1"}
HistorySet == {"history"}
IdentifierSet == {42}
AddressSet == {"doctorX", "doctorY"}
ZeroAddress == "0x0"

\* Ciphertext handles.  NoHandle is the all-zero handle of an uninitialised
\* euint32.
NoHandle == 0
HandleSet == {1, 2}
ExternalHandleSet == HandleSet
\* An input proof names the external ciphertext it was produced for.
InputProofSet == [ct : HandleSet]

\* abiEncodedClearDiagnosis: a byte string, kept as its length and its first
\* 32-byte word; the word w is kept as high = w \div 2^32 and
\* low = w % 2^32, so that w < 2^32 is high = 0.
WordBytes == 32
ClearSet == { [len |-> WordBytes, high |-> 0, low |-> 7],
              [len |-> WordBytes, high |-> 0, low |-> 9],
              [len |-> WordBytes, high |-> 1, low |-> 7],
              [len |-> 4, high |-> 0, low |-> 7],
              [len |-> 2 * WordBytes, high |-> 0, low |-> 7] }
\* A decryption proof is the KMS signature over (handles, cleartext bytes).
DecryptionProofSet == [h : HandleSet, clear : ClearSet]

\* ----------------------------------------------------------------- state
VARIABLES
    medicalCases,   \* mapping(string => MedicalCase)
    caseIds,        \* string[]
    events,         \* the log of emitted events, in order
    allowedThis,    \* handles the contract was granted (FHE.allowThis)
    publicHandles,  \* handles marked publicly decryptable
    now,            \* block.timestamp
    lastCall,       \* the latest step: a transaction that committed, with
                    \* its arguments, or a new block
    history,        \* the transactions that committed, in order
    \* The presentation layer (App.tsx): the state of the App component.
    isConnected,        \* useAccount().isConnected
    fhevmInitialized,   \* useFhevm().isInitialized
    fhevmInitializing,  \* useState(false), line 61
    effectDeps,         \* the dependency array of the render whose
                        \* initialisation effect ran last
    initializeInFlight, \* initialize() calls that have not settled yet
    failedSinceChange,  \* an initialize() failed and the wallet has not
                        \* changed since
    records,            \* useState<MedicalRecord[]>([])
    selectedRecord,     \* useState<MedicalRecord | null>(null)
    contractCalls,      \* the contract methods the latest handler called
    decryptReturn       \* what the latest decryptData read, did and returned

\* The state of the presentation layer.
uiVars == <<isConnected, fhevmInitialized, fhevmInitializing,
            effectDeps, initializeInFlight,
            failedSinceChange, records, selectedRecord,
            contractCalls, decryptReturn>>

\* The state of the contract and of its chain.
chainVars == <<medicalCases, caseIds, events, allowedThis, publicHandles, now,
               lastCall, history>>

vars == <<medicalCases, caseIds, events, allowedThis, publicHandles, now,
          lastCall, history, uiVars>>

\* The contract's storage, its event log and the grants it made, as a value.
contractState ==
    [ medicalCases |-> medicalCases,
      caseIds |-> caseIds,
      events |-> events,
      allowedThis |-> allowedThis,
      publicHandles |-> publicHandles ]

\* The value of a storage slot never written: every field zero.
EmptyCase == [ patientId |-> "",
               encryptedDiagnosis |-> NoHandle,
               caseId |-> 0,
               medicalHistory |-> "",
               specialist |-> ZeroAddress,
               timestamp |-> 0,
               decryptedDiagnosis |-> 0,
               isVerified |-> FALSE ]

NoCall == [op |-> "none"]

\* selectedRecord = null.
NoRecord ==
    [ id |-> "none", age |-> 0, isVerified |-> FALSE, decryptedValue |-> 0 ]

\* No decryptData has returned yet.
NoDecrypt ==
    [ businessId |-> "none", read |-> "none", stored |-> 0,
      submitted |-> FALSE, isNull |-> TRUE, value |-> 0 ]

\* The App component as first mounted: the useState initial values of
\* lines 32-61, the wallet not connected, the FHEVM instance not ready, and
\* no effect run yet.
UIInit ==
    /\ isConnected = FALSE
    /\ fhevmInitialized = FALSE
    /\ fhevmInitializing = FALSE
    /\ effectDeps = <<"mount">>
    /\ initializeInFlight = 0
    /\ failedSinceChange = FALSE
    /\ records = <<>>
    /\ selectedRecord = NoRecord
    /\ contractCalls = {}
    /\ decryptReturn = NoDecrypt

Init ==
    /\ medicalCases = [id \in CaseIdSet |-> EmptyCase]
    /\ caseIds = <<>>
    /\ events = <<>>
    /\ allowedThis = {}
    /\ publicHandles = {}
    /\ now = 1
    /\ lastCall = NoCall
    /\ history = <<>>
    /\ UIInit

\* ------------------------------------------------- external FHE library
\* FHE.fromExternal: the handle of the admitted ciphertext; an input proof
\* that was not produced for this ciphertext admits nothing.
fromExternal(encryptedDiagnosis, inputProof) ==
    IF inputProof.ct = encryptedDiagnosis
    THEN encryptedDiagnosis
    ELSE NoHandle

\* FHE.isInitialized: the handle is not the zero handle.
isInitialized(handle) == handle # NoHandle

\* FHE.checkSignatures(cts, cleartexts, proof): the proof is the KMS
\* signature over exactly these handles and exactly these cleartext bytes.
checkSignatures(cts, abiEncodedClearDiagnosis, decryptionProof) ==
    /\ cts = <<decryptionProof.h>>
    /\ abiEncodedClearDiagnosis = decryptionProof.clear

\* abi.decode(bytes, (uint32)): reverts on fewer than 32 bytes and on a
\* first word that is not a uint32; bytes after the first word are not
\* looked at.
CanDecodeUint32(bytes) == bytes.len >= WordBytes /\ bytes.high = 0
DecodeUint32(bytes) == bytes.low

\* ------------------------------------------------------------- contract
\* bytes(medicalCases[caseId].patientId).length > 0
CaseExists(caseId) == medicalCases[caseId].patientId # ""

\* Mutant of createOutcome: a ciphertext that another case has already
\* stored is refused.
createOutcomeHandleOnce(caseId, encryptedDiagnosis, inputProof) ==
    IF CaseExists(caseId)
    THEN "AlreadyExists"
    ELSE IF \/ ~isInitialized(fromExternal(encryptedDiagnosis, inputProof))
            \/ fromExternal(encryptedDiagnosis, inputProof) \in allowedThis
    THEN "InvalidCiphertext"
    ELSE "Ok"

\* The outcome of createMedicalCase's guards.
createOutcome(caseId, encryptedDiagnosis, inputProof) ==
    IF CaseExists(caseId)
    THEN "AlreadyExists"
    ELSE IF ~isInitialized(fromExternal(encryptedDiagnosis, inputProof))
    THEN "InvalidCiphertext"
    ELSE "Ok"

\* The calls createMedicalCase makes to FHE.fromExternal, in order: none
\* when the first require reverts, the one inside the second require when
\* that one reverts, and else that one and the one that fills the struct.
admitCalls(caseId, encryptedDiagnosis, inputProof) ==
    LET call == [ct |-> encryptedDiagnosis, proof |-> inputProof]
        outcome == createOutcome(caseId, encryptedDiagnosis, inputProof)
    IN  IF outcome = "AlreadyExists"
        THEN <<>>
        ELSE IF outcome = "InvalidCiphertext"
        THEN <<call>>
        ELSE <<call, call>>

\* The struct stored by createMedicalCase.
NewCase(sender, patientId, encryptedDiagnosis, inputProof, caseIdentifier, medicalHistory, t) ==
    [ patientId |-> patientId,
      encryptedDiagnosis |-> fromExternal(encryptedDiagnosis, inputProof),
      caseId |-> caseIdentifier,
      medicalHistory |-> medicalHistory,
      specialist |-> sender,
      timestamp |-> t,
      decryptedDiagnosis |-> 0,
      isVerified |-> FALSE ]

\* Mutant of PushCaseId: the new id goes to the front of the list.
PushCaseIdFront(ids, caseId) == <<caseId>> \o ids

\* caseIds.push(caseId)
PushCaseId(ids, caseId) == Append(ids, caseId)

\* Mutant of createEffect: the id is pushed before the ciphertext is
\* checked, and a bad ciphertext returns instead of reverting.
createEffectPushFirst(sender, caseId, patientId, encryptedDiagnosis, inputProof, caseIdentifier, medicalHistory) ==
    LET outcome == createOutcome(caseId, encryptedDiagnosis, inputProof)
        stored == NewCase(sender, patientId, encryptedDiagnosis, inputProof,
                          caseIdentifier, medicalHistory, now)
    IN  IF outcome = "AlreadyExists"
        THEN contractState
        ELSE IF outcome = "InvalidCiphertext"
        THEN [contractState EXCEPT !.caseIds = PushCaseId(caseIds, caseId)]
        ELSE [ medicalCases |-> [medicalCases EXCEPT ![caseId] = stored],
               caseIds |-> PushCaseId(caseIds, caseId),
               events |-> Append(events,
                   [ name |-> "MedicalCaseCreated", caseId |-> caseId,
                     specialist |-> sender ]),
               allowedThis |-> allowedThis \cup {stored.encryptedDiagnosis},
               publicHandles |->
                   publicHandles \cup {stored.encryptedDiagnosis} ]

\* Mutant of createEffect: the handle is granted to the contract but is not
\* made publicly decryptable.
createEffectNoPublicGrant(sender, caseId, patientId, encryptedDiagnosis, inputProof, caseIdentifier, medicalHistory) ==
    LET outcome == createOutcome(caseId, encryptedDiagnosis, inputProof)
        stored == NewCase(sender, patientId, encryptedDiagnosis, inputProof,
                          caseIdentifier, medicalHistory, now)
    IN  IF outcome # "Ok"
        THEN contractState
        ELSE [ medicalCases |-> [medicalCases EXCEPT ![caseId] = stored],
               caseIds |-> PushCaseId(caseIds, caseId),
               events |-> Append(events,
                   [ name |-> "MedicalCaseCreated", caseId |-> caseId,
                     specialist |-> sender ]),
               allowedThis |-> allowedThis \cup {stored.encryptedDiagnosis},
               publicHandles |-> publicHandles ]

\* Mutant of createEffect: the record is stored and the id pushed, but no
\* MedicalCaseCreated event is emitted.
createEffectNoCreatedEvent(sender, caseId, patientId, encryptedDiagnosis, inputProof, caseIdentifier, medicalHistory) ==
    LET outcome == createOutcome(caseId, encryptedDiagnosis, inputProof)
        stored == NewCase(sender, patientId, encryptedDiagnosis, inputProof,
                          caseIdentifier, medicalHistory, now)
    IN  IF outcome # "Ok"
        THEN contractState
        ELSE [ medicalCases |-> [medicalCases EXCEPT ![caseId] = stored],
               caseIds |-> PushCaseId(caseIds, caseId),
               events |-> events,
               allowedThis |-> allowedThis \cup {stored.encryptedDiagnosis},
               publicHandles |->
                   publicHandles \cup {stored.encryptedDiagnosis} ]

\* The contract's state after createMedicalCase: as before when a guard
\* reverts the transaction, and else with the record stored, the grants
\* made, the id pushed and the event emitted.
createEffect(sender, caseId, patientId, encryptedDiagnosis, inputProof, caseIdentifier, medicalHistory) ==
    LET outcome == createOutcome(caseId, encryptedDiagnosis, inputProof)
        stored == NewCase(sender, patientId, encryptedDiagnosis, inputProof,
                          caseIdentifier, medicalHistory, now)
    IN  IF outcome # "Ok"
        THEN contractState
        ELSE [ medicalCases |-> [medicalCases EXCEPT ![caseId] = stored],
               caseIds |-> PushCaseId(caseIds, caseId),
               events |-> Append(events,
                   [ name |-> "MedicalCaseCreated", caseId |-> caseId,
                     specialist |-> sender ]),
               allowedThis |-> allowedThis \cup {stored.encryptedDiagnosis},
               publicHandles |->
                   publicHandles \cup {stored.encryptedDiagnosis} ]

\* The step leaves the contract in this state.
SetContractState(after) ==
    \E s \in {after} :
        /\ medicalCases' = s.medicalCases
        /\ caseIds' = s.caseIds
        /\ events' = s.events
        /\ allowedThis' = s.allowedThis
        /\ publicHandles' = s.publicHandles

\* What history keeps of a transaction that committed.
Committed(op, caseId) == [op |-> op, caseId |-> caseId]

createMedicalCase(sender, caseId, patientId, encryptedDiagnosis, inputProof, caseIdentifier, medicalHistory) ==
    LET outcome == createOutcome(caseId, encryptedDiagnosis, inputProof)
        after == createEffect(sender, caseId, patientId, encryptedDiagnosis,
                              inputProof, caseIdentifier, medicalHistory)
        call == [ op |-> "create", sender |-> sender, caseId |-> caseId,
                  patientId |-> patientId,
                  encryptedDiagnosis |-> encryptedDiagnosis,
                  inputProof |-> inputProof,
                  caseIdentifier |-> caseIdentifier,
                  medicalHistory |-> medicalHistory ]
    IN  /\ SetContractState(after)
        /\ UNCHANGED <<now, uiVars>>
        /\ IF outcome = "Ok"
           THEN /\ lastCall' = call
                /\ history' = Append(history, Committed("create", caseId))
           ELSE UNCHANGED <<lastCall, history>>

\* Mutant of AttestedHandles: the handle checked is the one the caller's
\* proof names, not the one stored in the record.
AttestedHandlesFromCaller(caseId, decryptionProof) ==
    <<decryptionProof.h>>

\* cts[0] = FHE.toBytes32(medicalCases[caseId].encryptedDiagnosis)
AttestedHandles(caseId, decryptionProof) ==
    <<medicalCases[caseId].encryptedDiagnosis>>

\* Mutant of verifyOutcome: the require on isVerified is missing.
verifyOutcomeNoVerifiedGuard(caseId, abiEncodedClearDiagnosis, decryptionProof) ==
    IF ~CaseExists(caseId)
    THEN "NotFound"
    ELSE IF ~checkSignatures(AttestedHandles(caseId, decryptionProof),
                             abiEncodedClearDiagnosis, decryptionProof)
    THEN "InvalidAttestation"
    ELSE IF ~CanDecodeUint32(abiEncodedClearDiagnosis)
    THEN "MalformedInput"
    ELSE "Ok"

\* Mutant of verifyOutcome: the signature check and the decoding run before
\* the require on isVerified.
verifyOutcomeAttestFirst(caseId, abiEncodedClearDiagnosis, decryptionProof) ==
    IF ~CaseExists(caseId)
    THEN "NotFound"
    ELSE IF ~checkSignatures(AttestedHandles(caseId, decryptionProof),
                             abiEncodedClearDiagnosis, decryptionProof)
    THEN "InvalidAttestation"
    ELSE IF ~CanDecodeUint32(abiEncodedClearDiagnosis)
    THEN "MalformedInput"
    ELSE IF medicalCases[caseId].isVerified
    THEN "AlreadyVerified"
    ELSE "Ok"

\* The outcome of verifyDiagnosis's guards, in the order the code runs them.
verifyOutcome(caseId, abiEncodedClearDiagnosis, decryptionProof) ==
    IF ~CaseExists(caseId)
    THEN "NotFound"
    ELSE IF medicalCases[caseId].isVerified
    THEN "AlreadyVerified"
    ELSE IF ~checkSignatures(AttestedHandles(caseId, decryptionProof),
                             abiEncodedClearDiagnosis, decryptionProof)
    THEN "InvalidAttestation"
    ELSE IF ~CanDecodeUint32(abiEncodedClearDiagnosis)
    THEN "MalformedInput"
    ELSE "Ok"

\* The calls verifyDiagnosis makes to FHE.checkSignatures: none when one of
\* the two requires reverts, and else one, on the record's own handle.
attestCalls(caseId, abiEncodedClearDiagnosis, decryptionProof) ==
    IF verifyOutcome(caseId, abiEncodedClearDiagnosis, decryptionProof)
          \in {"NotFound", "AlreadyVerified"}
    THEN <<>>
    ELSE << [ cts |-> AttestedHandles(caseId, decryptionProof),
              clear |-> abiEncodedClearDiagnosis,
              proof |-> decryptionProof ] >>

\* Mutant of VerifiedCase: the value is written and the flag is not.
VerifiedCaseValueOnly(case, decodedDiagnosis) ==
    [case EXCEPT !.decryptedDiagnosis = decodedDiagnosis]

\* The record after verifyDiagnosis's two writes.
VerifiedCase(case, decodedDiagnosis) ==
    [case EXCEPT !.decryptedDiagnosis = decodedDiagnosis,
                 !.isVerified = TRUE]

\* Mutant of verifyEffect: the two fields are written and no event is
\* emitted.
verifyEffectNoEvent(caseId, abiEncodedClearDiagnosis, decryptionProof) ==
    LET outcome == verifyOutcome(caseId, abiEncodedClearDiagnosis,
                                 decryptionProof)
        decodedDiagnosis == DecodeUint32(abiEncodedClearDiagnosis)
    IN  IF outcome # "Ok"
        THEN contractState
        ELSE [ contractState EXCEPT
                 !.medicalCases[caseId] =
                     VerifiedCase(medicalCases[caseId], decodedDiagnosis) ]

\* The contract's state after verifyDiagnosis: as before when a guard, the
\* signature check or the decoding reverts the transaction, and else with
\* the two fields written and the event emitted.
verifyEffect(caseId, abiEncodedClearDiagnosis, decryptionProof) ==
    LET outcome == verifyOutcome(caseId, abiEncodedClearDiagnosis,
                                 decryptionProof)
        decodedDiagnosis == DecodeUint32(abiEncodedClearDiagnosis)
    IN  IF outcome # "Ok"
        THEN contractState
        ELSE [ contractState EXCEPT
                 !.medicalCases[caseId] =
                     VerifiedCase(medicalCases[caseId], decodedDiagnosis),
                 !.events = Append(events,
                     [ name |-> "DiagnosisVerified", caseId |-> caseId,
                       decryptedDiagnosis |-> decodedDiagnosis ]) ]

\* Mutant of verifyDiagnosis: only the case's specialist may verify it; any
\* other caller's transaction reverts.
verifyDiagnosisSpecialistOnly(sender, caseId, abiEncodedClearDiagnosis, decryptionProof) ==
    LET outcome == verifyOutcome(caseId, abiEncodedClearDiagnosis,
                                 decryptionProof)
        after == verifyEffect(caseId, abiEncodedClearDiagnosis,
                              decryptionProof)
        call == [ op |-> "verify", sender |-> sender, caseId |-> caseId,
                  clear |-> abiEncodedClearDiagnosis,
                  proof |-> decryptionProof ]
    IN  IF outcome = "Ok" /\ sender = medicalCases[caseId].specialist
        THEN /\ SetContractState(after)
             /\ UNCHANGED <<now, uiVars>>
             /\ lastCall' = call
             /\ history' = Append(history, Committed("verify", caseId))
        ELSE UNCHANGED vars

verifyDiagnosis(sender, caseId, abiEncodedClearDiagnosis, decryptionProof) ==
    LET outcome == verifyOutcome(caseId, abiEncodedClearDiagnosis,
                                 decryptionProof)
        after == verifyEffect(caseId, abiEncodedClearDiagnosis,
                              decryptionProof)
        call == [ op |-> "verify", sender |-> sender, caseId |-> caseId,
                  clear |-> abiEncodedClearDiagnosis,
                  proof |-> decryptionProof ]
    IN  /\ SetContractState(after)
        /\ UNCHANGED <<now, uiVars>>
        /\ IF outcome = "Ok"
           THEN /\ lastCall' = call
                /\ history' = Append(history, Committed("verify", caseId))
           ELSE UNCHANGED <<lastCall, history>>

\* The view functions: a result, or the revert reason.
getEncryptedDiagnosis(caseId) ==
    IF ~CaseExists(caseId)
    THEN [result |-> "NotFound"]
    ELSE [result |-> "Ok", value |-> medicalCases[caseId].encryptedDiagnosis]

\* Mutant of getMedicalCase: the require on the record's existence is
\* missing, so an absent id reads as the zero record.
getMedicalCaseNoGuard(caseId) ==
    LET data == medicalCases[caseId]
    IN  [ result |-> "Ok",
          patientId |-> data.patientId,
          caseIdentifier |-> data.caseId,
          medicalHistory |-> data.medicalHistory,
          specialist |-> data.specialist,
          timestamp |-> data.timestamp,
          isVerified |-> data.isVerified,
          decryptedDiagnosis |-> data.decryptedDiagnosis ]

getMedicalCase(caseId) ==
    IF ~CaseExists(caseId)
    THEN [result |-> "NotFound"]
    ELSE LET data == medicalCases[caseId]
         IN  [ result |-> "Ok",
               patientId |-> data.patientId,
               caseIdentifier |-> data.caseId,
               medicalHistory |-> data.medicalHistory,
               specialist |-> data.specialist,
               timestamp |-> data.timestamp,
               isVerified |-> data.isVerified,
               decryptedDiagnosis |-> data.decryptedDiagnosis ]

\* Mutant of getAllCaseIds: with no case stored it fails like the other
\* views do.
getAllCaseIdsNotFoundWhenEmpty ==
    IF caseIds = <<>> THEN "NotFound" ELSE caseIds

getAllCaseIds == caseIds

isAvailable == TRUE

\* ---------------------------------------------------------- transitions
\* A call that reverts leaves every variable as it was, which is a stuttering
\* step and one that Spec allows in every state; Next therefore draws the
\* calls that commit. What a reverting call does is createOutcome,
\* createEffect, verifyOutcome and verifyEffect on the inputs that revert.
\* A create is taken only while the list is below MaxCases.
Create ==
    \E sender \in AddressSet, caseId \in CaseIdSet,
       patientId \in PatientIdSet,
       encryptedDiagnosis \in ExternalHandleSet,
       inputProof \in InputProofSet,
       caseIdentifier \in IdentifierSet,
       medicalHistory \in HistorySet :
        /\ createOutcome(caseId, encryptedDiagnosis, inputProof) = "Ok"
        /\ Len(caseIds) < MaxCases
        /\ createMedicalCase(sender, caseId, patientId, encryptedDiagnosis,
                             inputProof, caseIdentifier, medicalHistory)

Verify ==
    \E sender \in AddressSet, caseId \in CaseIdSet, clear \in ClearSet,
       proof \in DecryptionProofSet :
        /\ verifyOutcome(caseId, clear, proof) = "Ok"
        /\ verifyDiagnosis(sender, caseId, clear, proof)

\* A later block: block.timestamp grows, the contract's storage stays.
NewBlock ==
    /\ now < MaxTime
    /\ now' = now + 1
    /\ lastCall' = [op |-> "block"]
    /\ UNCHANGED <<medicalCases, caseIds, events, allowedThis, publicHandles,
                   history, uiVars>>

Next == Create \/ Verify \/ NewBlock

Spec == Init /\ [][Next]_vars

\* ------------------------------------------------- presentation layer
\* The App component of App.tsx.  Its contract object (getContractReadOnly,
\* getContractWithSigner) and its hooks (useAccount, useFhevm, useDecrypt)
\* are collaborators: what they answer is an input of each handler.  State
\* that no handler reads (the status message, the loading flags, the
\* statistics, the operation history) is left out.

\* The operations the registry contract exposes, each with the number of its
\* arguments: its external functions and the getters of its public state.
ContractInterface ==
    { [name |-> "medicalCases", args |-> 1],
      [name |-> "caseIds", args |-> 1],
      [name |-> "createMedicalCase", args |-> 6],
      [name |-> "verifyDiagnosis", args |-> 3],
      [name |-> "getEncryptedDiagnosis", args |-> 1],
      [name |-> "getMedicalCase", args |-> 1],
      [name |-> "getAllCaseIds", args |-> 0],
      [name |-> "isAvailable", args |-> 0] }

\* The contract calls of the UI, as written at their call sites.
CallGetAllBusinessIds == [name |-> "getAllBusinessIds", args |-> 0]

CallGetBusinessData == [name |-> "getBusinessData", args |-> 1]

CallCreateBusinessData == [name |-> "createBusinessData", args |-> 7]

CallGetEncryptedValue == [name |-> "getEncryptedValue", args |-> 1]

CallVerifyDecryption == [name |-> "verifyDecryption", args |-> 3]

CallIsAvailable == [name |-> "isAvailable", args |-> 0]

\* The registry exposes an operation of this name with this many arguments.
Exposed(call) ==
    call \in ContractInterface

\* The ids the UI is given and the values of a record it is given.
BusinessIdSet == {"A"}

DecryptedValueSet == {0, 7}

PublicValueSet == {30}

\* What a read of one record answers: the registry's isVerified and decrypted
\* value (0 until the record is verified) and a public value.
BusinessDataSet ==
    { d \in [ isVerified : BOOLEAN, decryptedValue : DecryptedValueSet,
              publicValue1 : PublicValueSet ] :
        ~d.isVerified => d.decryptedValue = 0 }

NoData == [isVerified |-> FALSE, decryptedValue |-> 0, publicValue1 |-> 0]

\* A read either throws or returns a record.
ReadReplySet ==
    {[thrown |-> TRUE, data |-> NoData]}
      \cup {[thrown |-> FALSE, data |-> d] : d \in BusinessDataSet}

\* The list of ids either throws or returns a list.
IdsReplySet ==
    {[thrown |-> TRUE, ids |-> <<>>]}
      \cup {[thrown |-> FALSE, ids |-> ids] : ids \in {<<>>, <<"A">>}}

\* What one loadData is answered: the list of ids, and a read for each id of
\* the list (the reads of other ids are not made).
LoadReplySet ==
    { l \in [ids : IdsReplySet, data : [BusinessIdSet -> ReadReplySet]] :
        \A id \in BusinessIdSet :
            (\A i \in DOMAIN l.ids.ids : l.ids.ids[i] # id)
                => l.data[id].thrown }

NoLoad == [ ids |-> [thrown |-> TRUE, ids |-> <<>>], data |-> [id \in BusinessIdSet |-> [thrown |-> TRUE, data |-> NoData]] ]

\* useDecrypt().verifyDecryption: it fails before it calls back, or it calls
\* back, which submits the verification transaction, and that transaction
\* commits or reverts.
VerifyReplySet ==
    { [submitted |-> FALSE, error |-> "other", clearValue |-> 0],
      [submitted |-> TRUE, error |-> "other", clearValue |-> 0],
      [submitted |-> TRUE, error |-> "Data already verified", clearValue |-> 0] }
      \cup { [submitted |-> TRUE, error |-> "none", clearValue |-> v] :
                v \in DecryptedValueSet }

NoVerify == [submitted |-> FALSE, error |-> "other", clearValue |-> 0]

\* What one decryptData is answered: the read of the record, whether the
\* read of the handle throws, what verifyDecryption does, and what the
\* loadData after it is answered.  The answers of calls that the code does
\* not reach after the answers before them are left at their defaults.
DecryptReplySet ==
    { r \in [ read : ReadReplySet, handleThrows : BOOLEAN,
              verify : VerifyReplySet, load : LoadReplySet ] :
        /\ r.read.thrown => r.handleThrows
        /\ r.handleThrows => r.verify = NoVerify
        /\ (~r.verify.submitted \/ r.verify.error = "other")
              => r.load = NoLoad }

\* Number(x) || 0, for the x the model draws: numbers.
NumberOrZero(x) ==
    IF x = 0 THEN 0 ELSE x

\* The MedicalRecord loadData builds from a read.
MedicalRecord(businessId, businessData) ==
    [ id |-> businessId,
      age |-> NumberOrZero(businessData.publicValue1),
      isVerified |-> businessData.isVerified,
      decryptedValue |-> NumberOrZero(businessData.decryptedValue) ]

\* loadData past its guard: the new records and the calls it made.  A record
\* whose read throws is skipped; when the list of ids throws the records
\* stay as they are.
loadDataEffect(loadReply) ==
    LET idsReply == loadReply.ids
        dataReply == loadReply.data
        kept == SelectSeq(idsReply.ids, LAMBDA id : ~dataReply[id].thrown)
    IN  IF idsReply.thrown
        THEN [ records |-> records, calls |-> {CallGetAllBusinessIds} ]
        ELSE [ records |-> [ i \in 1..Len(kept) |->
                               MedicalRecord(kept[i], dataReply[kept[i]].data) ],
               calls |-> {CallGetAllBusinessIds}
                           \cup IF idsReply.ids = <<>> THEN {}
                                ELSE {CallGetBusinessData} ]

\* The wallet connects or disconnects (useAccount).
Connect ==
    /\ ~isConnected
    /\ isConnected' = TRUE
    /\ failedSinceChange' = FALSE
    /\ UNCHANGED <<fhevmInitialized, fhevmInitializing, effectDeps,
                   initializeInFlight, records, selectedRecord, contractCalls,
                   decryptReturn>>
    /\ UNCHANGED chainVars

Disconnect ==
    /\ isConnected
    /\ isConnected' = FALSE
    /\ failedSinceChange' = FALSE
    /\ UNCHANGED <<fhevmInitialized, fhevmInitializing, effectDeps,
                   initializeInFlight, records, selectedRecord, contractCalls,
                   decryptReturn>>
    /\ UNCHANGED chainVars

\* The dependency array of the initialisation effect, as a render sees it
\* (the `initialize` callback is taken to stay the same).
CurrentDeps ==
    <<isConnected, fhevmInitialized, fhevmInitializing>>

\* Mutant of StartsInitialize: the effect does not test fhevmInitializing.
StartsInitializeNoFlag ==
    /\ isConnected
    /\ ~fhevmInitialized

\* The guards of initFhevmAfterConnection let it call initialize().
StartsInitialize ==
    /\ isConnected
    /\ ~fhevmInitialized
    /\ ~fhevmInitializing

\* A render whose dependency array differs from the last one's runs the
\* effect: it returns at a guard, or sets fhevmInitializing and calls
\* initialize(), which is then in flight.
initFhevmAfterConnection ==
    /\ effectDeps # CurrentDeps
    /\ effectDeps' = CurrentDeps
    /\ IF StartsInitialize
       THEN /\ initializeInFlight < MaxInFlight
            /\ fhevmInitializing' = TRUE
            /\ initializeInFlight' = initializeInFlight + 1
       ELSE UNCHANGED <<fhevmInitializing, initializeInFlight>>
    /\ UNCHANGED <<isConnected, fhevmInitialized, failedSinceChange, records,
                   selectedRecord, contractCalls, decryptReturn>>
    /\ UNCHANGED chainVars

\* initialize() resolves: the instance is ready, and `finally` clears
\* fhevmInitializing.
initializeResolves ==
    /\ initializeInFlight > 0
    /\ initializeInFlight' = initializeInFlight - 1
    /\ fhevmInitialized' = TRUE
    /\ fhevmInitializing' = FALSE
    /\ UNCHANGED <<isConnected, effectDeps, failedSinceChange, records,
                   selectedRecord, contractCalls, decryptReturn>>
    /\ UNCHANGED chainVars

\* initialize() rejects: `catch` shows the error, and `finally` clears
\* fhevmInitializing.
initializeRejects ==
    /\ initializeInFlight > 0
    /\ initializeInFlight' = initializeInFlight - 1
    /\ fhevmInitializing' = FALSE
    /\ failedSinceChange' = TRUE
    /\ UNCHANGED <<isConnected, fhevmInitialized, effectDeps, records,
                   selectedRecord, contractCalls, decryptReturn>>
    /\ UNCHANGED chainVars

\* loadData: it returns at once when the wallet is not connected.
loadData ==
    \E loadReply \in LoadReplySet :
        LET after == loadDataEffect(loadReply)
        IN  /\ isConnected
            /\ records' = after.records
            /\ contractCalls' = after.calls
            /\ UNCHANGED <<isConnected, fhevmInitialized, fhevmInitializing,
                           effectDeps, initializeInFlight, failedSinceChange,
                           selectedRecord, decryptReturn>>
            /\ UNCHANGED chainVars

\* createRecord: it returns at once when the wallet is not connected; else
\* the transaction is sent with seven arguments, and when it commits the
\* list is loaded again.
createRecord ==
    \E txThrows \in BOOLEAN, loadReply \in LoadReplySet :
        LET after == loadDataEffect(loadReply)
        IN  /\ isConnected
            /\ txThrows => loadReply = NoLoad
            /\ IF txThrows
               THEN /\ contractCalls' = {CallCreateBusinessData}
                    /\ UNCHANGED records
               ELSE /\ records' = after.records
                    /\ contractCalls' = {CallCreateBusinessData}
                                          \cup after.calls
            /\ UNCHANGED <<isConnected, fhevmInitialized, fhevmInitializing,
                           effectDeps, initializeInFlight, failedSinceChange,
                           selectedRecord, decryptReturn>>
            /\ UNCHANGED chainVars

\* What decryptData returns.
Null == [isNull |-> TRUE, value |-> 0]

Value(v) == [isNull |-> FALSE, value |-> v]

\* Mutant of decryptDataEffect: the record is not tested for isVerified, so
\* the verification is submitted for a verified record as well.
decryptDataEffectNoVerifiedTest(businessId, reply) ==
    LET load == loadDataEffect(reply.load)
        here == [ records |-> records, calls |-> {}, read |-> "none",
                  stored |-> 0, submitted |-> FALSE, return |-> Null ]
        stored == reply.read.data.decryptedValue
        seen == IF reply.read.data.isVerified THEN "verified"
                ELSE "unverified"
    IN  IF ~isConnected
        THEN here
        ELSE IF reply.read.thrown
        THEN [here EXCEPT !.calls = {CallGetBusinessData}, !.read = "thrown"]
        ELSE IF reply.handleThrows \/ ~reply.verify.submitted
        THEN [here EXCEPT !.calls = {CallGetBusinessData,
                                     CallGetEncryptedValue},
                          !.read = seen, !.stored = stored]
        ELSE IF reply.verify.error = "other"
        THEN [here EXCEPT !.calls = {CallGetBusinessData,
                                     CallGetEncryptedValue,
                                     CallVerifyDecryption},
                          !.read = seen, !.stored = stored,
                          !.submitted = TRUE]
        ELSE [ records |-> load.records,
               calls |-> {CallGetBusinessData, CallGetEncryptedValue,
                          CallVerifyDecryption} \cup load.calls,
               read |-> seen, stored |-> stored, submitted |-> TRUE,
               return |-> IF reply.verify.error = "none"
                          THEN Value(reply.verify.clearValue) ELSE Null ]

\* decryptData(businessId): what it leaves and returns.  It reads the record;
\* a verified record's stored value is returned at once; else the handle is
\* read and verifyDecryption is called, whose callback submits the
\* verification; the list is loaded again after a verification that
\* committed (the clear value is returned) or that reverted with "Data
\* already verified" (null is returned); every other error returns null.
decryptDataEffect(businessId, reply) ==
    LET load == loadDataEffect(reply.load)
        here == [ records |-> records, calls |-> {}, read |-> "none",
                  stored |-> 0, submitted |-> FALSE, return |-> Null ]
        stored == reply.read.data.decryptedValue
    IN  IF ~isConnected
        THEN here
        ELSE IF reply.read.thrown
        THEN [here EXCEPT !.calls = {CallGetBusinessData}, !.read = "thrown"]
        ELSE IF reply.read.data.isVerified
        THEN [here EXCEPT !.calls = {CallGetBusinessData},
                          !.read = "verified", !.stored = stored,
                          !.return = Value(NumberOrZero(stored))]
        ELSE IF reply.handleThrows \/ ~reply.verify.submitted
        THEN [here EXCEPT !.calls = {CallGetBusinessData,
                                     CallGetEncryptedValue},
                          !.read = "unverified", !.stored = stored]
        ELSE IF reply.verify.error = "other"
        THEN [here EXCEPT !.calls = {CallGetBusinessData,
                                     CallGetEncryptedValue,
                                     CallVerifyDecryption},
                          !.read = "unverified", !.stored = stored,
                          !.submitted = TRUE]
        ELSE [ records |-> load.records,
               calls |-> {CallGetBusinessData, CallGetEncryptedValue,
                          CallVerifyDecryption} \cup load.calls,
               read |-> "unverified", stored |-> stored, submitted |-> TRUE,
               return |-> IF reply.verify.error = "none"
                          THEN Value(reply.verify.clearValue) ELSE Null ]

\* The detail view's button calls decryptData(selectedRecord.id).
decryptData ==
    \E reply \in DecryptReplySet :
        LET after == decryptDataEffect(selectedRecord.id, reply)
        IN  /\ selectedRecord # NoRecord
            \* Not connected, no call is made and nothing is answered.
            /\ ~isConnected => reply.read.thrown
            /\ records' = after.records
            /\ contractCalls' = IF after.calls = {} THEN contractCalls
                                ELSE after.calls
            /\ decryptReturn' = [ businessId |-> selectedRecord.id,
                                  read |-> after.read,
                                  stored |-> after.stored,
                                  submitted |-> after.submitted,
                                  isNull |-> after.return.isNull,
                                  value |-> after.return.value ]
            /\ UNCHANGED <<isConnected, fhevmInitialized, fhevmInitializing,
                           effectDeps, initializeInFlight, failedSinceChange,
                           selectedRecord>>
            /\ UNCHANGED chainVars

\* handleAvailabilityCheck: one call of isAvailable().
handleAvailabilityCheck ==
    /\ contractCalls' = {CallIsAvailable}
    /\ UNCHANGED <<isConnected, fhevmInitialized, fhevmInitializing,
                   effectDeps, initializeInFlight, failedSinceChange, records,
                   selectedRecord, decryptReturn>>
    /\ UNCHANGED chainVars

\* A click on a record of the list opens its detail view; closing it sets
\* selectedRecord to null.
setSelectedRecord ==
    \E record \in {NoRecord} \cup {records[i] : i \in DOMAIN records} :
        /\ record # selectedRecord
        /\ selectedRecord' = record
        /\ UNCHANGED <<isConnected, fhevmInitialized, fhevmInitializing,
                       effectDeps, initializeInFlight, failedSinceChange,
                       records, contractCalls, decryptReturn>>
        /\ UNCHANGED chainVars

\* The "Patient Age" row of the detail view: the decrypted value, or the
\* placeholder.  In JavaScript 0 is falsy.
DetailAgeText(record) ==
    IF record.isVerified /\ record.decryptedValue # 0
    THEN [kind |-> "Verified", years |-> record.decryptedValue]
    ELSE [kind |-> "FHE Encrypted", years |-> 0]

\* renderConditionChart: the value the bar is drawn from.
ChartCondition(record) ==
    IF record.isVerified THEN NumberOrZero(record.decryptedValue)
    ELSE record.age

UINext ==
    \/ Connect
    \/ Disconnect
    \/ initFhevmAfterConnection
    \/ initializeResolves
    \/ initializeRejects
    \/ loadData
    \/ createRecord
    \/ decryptData
    \/ handleAvailabilityCheck
    \/ setSelectedRecord

UISpec == Init /\ [][UINext]_vars

\* ------------------------------------------------- what history records
\* A createMedicalCase for this id has committed.
EverCreated(id) ==
    \E i \in DOMAIN history : history[i] = Committed("create", id)

\* The number of transactions of this kind on this id that committed.
CommitCount(op, id) ==
    Cardinality({i \in DOMAIN history : history[i] = Committed(op, id)})

\* The ids of the creates that committed, in the order they committed.
CreatedOrder ==
    LET creates == SelectSeq(history, LAMBDA c : c.op = "create")
    IN  [i \in 1..Len(creates) |-> creates[i].caseId]

Range(seq) == {seq[i] : i \in DOMAIN seq}

IsPrefix(s, t) == Len(s) <= Len(t) /\ SubSeq(t, 1, Len(s)) = s

\* The step is a transaction of this kind on this id that commits.
Commits(op, id) == history' = Append(history, Committed(op, id))

\* --------------------------------------------------------------- claims

\* C1 (uniqueness): once a createMedicalCase on an id has committed, every
\* later createMedicalCase on that id, whatever its arguments, reverts with
\* AlreadyExists, and the stored record stays what the first call stored.
C1_Uniqueness ==
    \A id \in CaseIdSet :
        EverCreated(id)
          => \A sender \in AddressSet, patientId \in PatientIdSet,
                encryptedDiagnosis \in ExternalHandleSet,
                inputProof \in InputProofSet,
                caseIdentifier \in IdentifierSet,
                medicalHistory \in HistorySet :
                /\ createOutcome(id, encryptedDiagnosis, inputProof)
                     = "AlreadyExists"
                /\ createEffect(sender, id, patientId, encryptedDiagnosis,
                                inputProof, caseIdentifier,
                                medicalHistory).medicalCases[id]
                     = medicalCases[id]

\* C2 (monotonic verification): a verifyDiagnosis(id, v, proof) that commits
\* makes getMedicalCase(id) report isVerified = TRUE and
\* decryptedDiagnosis = v; from then on no step resets isVerified or changes
\* decryptedDiagnosis, getMedicalCase(id) keeps succeeding, and every
\* verifyDiagnosis on id reverts with AlreadyVerified.
C2_MonotonicVerification ==
    [][ \A id \in CaseIdSet :
          /\ Commits("verify", id)
                => /\ getMedicalCase(id)'.result = "Ok"
                   /\ getMedicalCase(id)'.isVerified
                   /\ getMedicalCase(id)'.decryptedDiagnosis =
                          DecodeUint32(lastCall'.clear)
          /\ medicalCases[id].isVerified
                => /\ getMedicalCase(id)'.result = "Ok"
                   /\ getMedicalCase(id)'.isVerified
                   /\ getMedicalCase(id)'.decryptedDiagnosis =
                          medicalCases[id].decryptedDiagnosis
                   /\ ~Commits("verify", id)
                   /\ \A clear \in ClearSet, proof \in DecryptionProofSet :
                         verifyOutcome(id, clear, proof) = "AlreadyVerified"
      ]_vars

\* C2 witness: a case verified with the value 7, after which a block has
\* passed, and on which a verifyDiagnosis carrying a good attestation for 9
\* is rejected with AlreadyVerified.
C2_Witness ==
    \E id \in CaseIdSet :
        /\ medicalCases[id].isVerified
        /\ medicalCases[id].decryptedDiagnosis = 7
        /\ lastCall.op = "block"
        /\ \E clear \in ClearSet :
              /\ DecodeUint32(clear) = 9
              /\ verifyOutcome(id, clear,
                     [h |-> medicalCases[id].encryptedDiagnosis,
                      clear |-> clear]) = "AlreadyVerified"

\* C3 (attestation binding): the attestation is checked against the handle
\* stored in the case's own record: on a case that exists and is not yet
\* verified, a proof that is not the signature over that stored handle and
\* the claimed cleartext gives InvalidAttestation and leaves isVerified
\* false; and the verifyDiagnosis that committed last carried a proof over
\* the stored handle and the claimed cleartext.
C3_AttestationBinding ==
    /\ \A id \in CaseIdSet :
          (CaseExists(id) /\ ~medicalCases[id].isVerified)
            => \A clear \in ClearSet, proof \in DecryptionProofSet :
                  (proof.h # medicalCases[id].encryptedDiagnosis
                      \/ proof.clear # clear)
                    => /\ verifyOutcome(id, clear, proof)
                            = "InvalidAttestation"
                       /\ ~verifyEffect(id, clear, proof)
                              .medicalCases[id].isVerified
    /\ lastCall.op = "verify"
          => /\ lastCall.proof.h
                   = medicalCases[lastCall.caseId].encryptedDiagnosis
             /\ lastCall.proof.clear = lastCall.clear

\* C3 witness: two cases with different handles, one of them not verified,
\* on which the attestation that is good for the other case's handle is
\* rejected with InvalidAttestation.
C3_Witness ==
    \E id, other \in CaseIdSet, clear \in ClearSet :
        /\ CaseExists(id)
        /\ CaseExists(other)
        /\ ~medicalCases[id].isVerified
        /\ medicalCases[other].encryptedDiagnosis
              # medicalCases[id].encryptedDiagnosis
        /\ verifyOutcome(other, clear,
               [h |-> medicalCases[other].encryptedDiagnosis,
                clear |-> clear]) = "Ok"
        /\ verifyOutcome(id, clear,
               [h |-> medicalCases[other].encryptedDiagnosis,
                clear |-> clear]) = "InvalidAttestation"

\* C4 (the id list mirrors the inserted ids): caseIds holds no id twice, and
\* an id is in caseIds exactly when a createMedicalCase for it has committed.
C4_ListMirrorsCreated ==
    /\ \A i, j \in DOMAIN caseIds : caseIds[i] = caseIds[j] => i = j
    /\ \A id \in CaseIdSet : id \in Range(caseIds) <=> EverCreated(id)

\* C5 (failure atomicity): a call that fails, for whatever reason, leaves
\* the records, the id list, the emitted events and the grants as they were;
\* a createMedicalCase fails only with AlreadyExists or InvalidCiphertext
\* and a verifyDiagnosis only with NotFound, AlreadyVerified,
\* InvalidAttestation or a malformed cleartext; a createMedicalCase that
\* fails on an id never created leaves no record and no list entry for it.
C5_FailureAtomicity ==
    /\ \A sender \in AddressSet, caseId \in CaseIdSet,
          patientId \in PatientIdSet,
          encryptedDiagnosis \in ExternalHandleSet,
          inputProof \in InputProofSet,
          caseIdentifier \in IdentifierSet,
          medicalHistory \in HistorySet :
          LET outcome == createOutcome(caseId, encryptedDiagnosis, inputProof)
              after == createEffect(sender, caseId, patientId,
                                    encryptedDiagnosis, inputProof,
                                    caseIdentifier, medicalHistory)
          IN  outcome # "Ok"
                => /\ outcome \in {"AlreadyExists", "InvalidCiphertext"}
                   /\ after = contractState
                   /\ ~EverCreated(caseId)
                         => /\ after.medicalCases[caseId] = EmptyCase
                            /\ caseId \notin Range(after.caseIds)
    /\ \A caseId \in CaseIdSet, clear \in ClearSet,
          proof \in DecryptionProofSet :
          LET outcome == verifyOutcome(caseId, clear, proof)
          IN  outcome # "Ok"
                => /\ outcome \in {"NotFound", "AlreadyVerified",
                                   "InvalidAttestation", "MalformedInput"}
                   /\ verifyEffect(caseId, clear, proof) = contractState

\* C5 witness: a state with a record, an id and an event in it, in which a
\* createMedicalCase can fail in both ways and a verifyDiagnosis with
\* NotFound, with InvalidAttestation and with a malformed cleartext.
C5_Witness ==
    /\ Len(events) > 0
    /\ Len(caseIds) > 0
    /\ \A reason \in {"AlreadyExists", "InvalidCiphertext"} :
          \E caseId \in CaseIdSet, encryptedDiagnosis \in ExternalHandleSet,
             inputProof \in InputProofSet :
              createOutcome(caseId, encryptedDiagnosis, inputProof) = reason
    /\ \A reason \in {"NotFound", "InvalidAttestation", "MalformedInput"} :
          \E caseId \in CaseIdSet, clear \in ClearSet,
             proof \in DecryptionProofSet :
              verifyOutcome(caseId, clear, proof) = reason

\* C6 (create postcondition): after a createMedicalCase that commits,
\* getMedicalCase(caseId) succeeds and returns the call's patientId,
\* caseIdentifier and medicalHistory, the caller as specialist, the block's
\* timestamp, isVerified = FALSE and decryptedDiagnosis = 0, and
\* getEncryptedDiagnosis(caseId) returns the admitted handle.
C6_CreatePostcondition ==
    [][ \A id \in CaseIdSet :
          Commits("create", id)
              => /\ getMedicalCase(id)' =
                       [ result |-> "Ok",
                         patientId |-> lastCall'.patientId,
                         caseIdentifier |-> lastCall'.caseIdentifier,
                         medicalHistory |-> lastCall'.medicalHistory,
                         specialist |-> lastCall'.sender,
                         timestamp |-> now,
                         isVerified |-> FALSE,
                         decryptedDiagnosis |-> 0 ]
                 /\ getEncryptedDiagnosis(id)' =
                       [ result |-> "Ok",
                         value |-> lastCall'.encryptedDiagnosis ] ]_vars

\* C7 (not-found closure): on an id for which no createMedicalCase has
\* committed, getMedicalCase and getEncryptedDiagnosis fail with NotFound,
\* and verifyDiagnosis, whatever its other arguments, fails with NotFound
\* and changes no state.
C7_NotFoundClosure ==
    \A id \in CaseIdSet :
        ~EverCreated(id)
          => /\ getMedicalCase(id).result = "NotFound"
             /\ getEncryptedDiagnosis(id).result = "NotFound"
             /\ \A clear \in ClearSet, proof \in DecryptionProofSet :
                   /\ verifyOutcome(id, clear, proof) = "NotFound"
                   /\ verifyEffect(id, clear, proof) = contractState

\* C7 witness: one id has a stored, readable case and the other was never
\* created.
C7_Witness ==
    \E id, other \in CaseIdSet :
        /\ ~EverCreated(id)
        /\ EverCreated(other)
        /\ getMedicalCase(other).result = "Ok"

\* C8 (immutability, no deletion): once a createMedicalCase for an id has
\* committed, no step changes the record's patientId, handle, caseIdentifier,
\* medicalHistory, specialist or timestamp, nor removes the record; and
\* decryptedDiagnosis and isVerified change only in one step, a
\* verifyDiagnosis on that id that commits and takes isVerified from FALSE
\* to TRUE.
C8_Immutability ==
    [][ \A id \in CaseIdSet :
          EverCreated(id)
              => /\ medicalCases'[id].patientId = medicalCases[id].patientId
                 /\ medicalCases'[id].encryptedDiagnosis
                       = medicalCases[id].encryptedDiagnosis
                 /\ medicalCases'[id].caseId = medicalCases[id].caseId
                 /\ medicalCases'[id].medicalHistory
                       = medicalCases[id].medicalHistory
                 /\ medicalCases'[id].specialist = medicalCases[id].specialist
                 /\ medicalCases'[id].timestamp = medicalCases[id].timestamp
                 /\ medicalCases'[id] # EmptyCase
                 /\ medicalCases'[id] # medicalCases[id]
                       => /\ ~medicalCases[id].isVerified
                          /\ medicalCases'[id].isVerified
                          /\ Commits("verify", id) ]_vars

\* C9 (enumeration order): getAllCaseIds is the ids of the creates that
\* committed, in the order they committed; every step leaves the previous
\* list as a prefix of the new one; and a verifyDiagnosis, committed or
\* reverted, leaves the list as it was.
C9_EnumerationOrder ==
    [][ /\ getAllCaseIds = CreatedOrder
        /\ getAllCaseIds' = CreatedOrder'
        /\ IsPrefix(getAllCaseIds, getAllCaseIds')
        /\ (\E id \in CaseIdSet : Commits("verify", id))
              => getAllCaseIds' = getAllCaseIds
        /\ \A id \in CaseIdSet, clear \in ClearSet,
              proof \in DecryptionProofSet :
              verifyEffect(id, clear, proof).caseIds = getAllCaseIds ]_vars

\* C9 witness: A then B were created, A was verified afterwards, and the
\* list is still A, B.
C9_Witness ==
    /\ getAllCaseIds = <<"A", "B">>
    /\ history = << Committed("create", "A"), Committed("create", "B"),
                    Committed("verify", "A") >>
    /\ medicalCases["A"].isVerified

\* C10 (per-case mutual exclusion): of the createMedicalCase transactions
\* submitted for one caseId at most one commits, and of the verifyDiagnosis
\* transactions submitted for one caseId at most one commits, in whatever
\* order the chain takes them.
C10_MutualExclusion ==
    \A id \in CaseIdSet :
        /\ CommitCount("create", id) <= 1
        /\ CommitCount("verify", id) <= 1

\* C11 (cleartext decoding): a verifyDiagnosis that commits stores exactly
\* the unsigned 32-bit integer that the claimed cleartext encodes, and a
\* cleartext that is not the encoding of a uint32, by its length (not one
\* 32-byte word) or by its value (2^32 or more), makes the call fail with
\* neither decryptedDiagnosis nor isVerified written.
C11_CleartextDecoding ==
    \A id \in CaseIdSet, clear \in ClearSet, proof \in DecryptionProofSet :
        LET outcome == verifyOutcome(id, clear, proof)
            after == verifyEffect(id, clear, proof).medicalCases[id]
            valid == clear.len = WordBytes /\ clear.high = 0
        IN  /\ outcome = "Ok"
                => /\ valid
                   /\ after.isVerified
                   /\ after.decryptedDiagnosis = clear.low
            /\ ~valid
                => /\ outcome # "Ok"
                   /\ after.isVerified = medicalCases[id].isVerified
                   /\ after.decryptedDiagnosis
                         = medicalCases[id].decryptedDiagnosis

\* C12 (permissionless verification): what verifyDiagnosis(caseId, cleartext,
\* proof) does is the same for every caller: when the call's guards pass,
\* every caller, the case's specialist or not, can commit it, and the
\* contract's state after it is the same whoever called; and when the
\* attestation is the one for the stored handle and the cleartext but
\* another guard fails, no caller changes anything with it.
C12_PermissionlessVerification ==
    /\ \A id \in CaseIdSet, clear \in ClearSet, proof \in DecryptionProofSet :
          verifyOutcome(id, clear, proof) = "Ok"
            => \A sender \in AddressSet :
                  ENABLED ( /\ verifyDiagnosis(sender, id, clear, proof)
                            /\ Commits("verify", id)
                            /\ lastCall'.sender = sender
                            /\ SetContractState(
                                   verifyEffect(id, clear, proof)) )
    /\ ~ENABLED ( \E sender \in AddressSet, id \in CaseIdSet,
                     clear \in ClearSet :
                      \E proof \in {[ h |-> medicalCases[id].encryptedDiagnosis,
                                      clear |-> clear ]} :
                          /\ verifyOutcome(id, clear, proof) # "Ok"
                          /\ verifyDiagnosis(sender, id, clear, proof)
                          /\ vars' # vars )

\* C12 witness: a case verified by a caller who is not its specialist.
C12_Witness ==
    /\ lastCall.op = "verify"
    /\ lastCall.sender # medicalCases[lastCall.caseId].specialist
    /\ medicalCases[lastCall.caseId].isVerified
    /\ medicalCases[lastCall.caseId].decryptedDiagnosis
          = DecodeUint32(lastCall.clear)

\* C13 (disclosure grant at creation): in every reachable state the handle
\* of every stored case has been granted to the contract itself and marked
\* publicly decryptable; a createMedicalCase that commits makes both grants
\* for the handle it stores, whatever happens later, and one that fails
\* makes no grant.
C13_DisclosureGrant ==
    /\ \A id \in CaseIdSet :
          (EverCreated(id) \/ medicalCases[id] # EmptyCase)
            => /\ isInitialized(medicalCases[id].encryptedDiagnosis)
               /\ medicalCases[id].encryptedDiagnosis \in allowedThis
               /\ medicalCases[id].encryptedDiagnosis \in publicHandles
    /\ \A sender \in AddressSet, caseId \in CaseIdSet,
          patientId \in PatientIdSet,
          encryptedDiagnosis \in ExternalHandleSet,
          inputProof \in InputProofSet,
          caseIdentifier \in IdentifierSet,
          medicalHistory \in HistorySet :
          LET outcome == createOutcome(caseId, encryptedDiagnosis, inputProof)
              after == createEffect(sender, caseId, patientId,
                                    encryptedDiagnosis, inputProof,
                                    caseIdentifier, medicalHistory)
              handle == after.medicalCases[caseId].encryptedDiagnosis
          IN  IF outcome = "Ok"
              THEN /\ handle = fromExternal(encryptedDiagnosis, inputProof)
                   /\ handle \in after.allowedThis
                   /\ handle \in after.publicHandles
                   /\ ~after.medicalCases[caseId].isVerified
              ELSE /\ after.allowedThis = allowedThis
                   /\ after.publicHandles = publicHandles

\* C13 witness: a stored case that nobody has verified, whose handle has
\* both grants, while another handle has none.
C13_Witness ==
    \E id \in CaseIdSet, other \in HandleSet :
        /\ EverCreated(id)
        /\ CaseExists(id)
        /\ ~medicalCases[id].isVerified
        /\ medicalCases[id].encryptedDiagnosis \in allowedThis
        /\ medicalCases[id].encryptedDiagnosis \in publicHandles
        /\ other \notin allowedThis
        /\ other \notin publicHandles

\* The number of DiagnosisVerified events emitted for this id.
VerifiedEvents(id) ==
    Cardinality({ i \in DOMAIN events :
                    /\ events[i].name = "DiagnosisVerified"
                    /\ events[i].caseId = id })

\* C14 (event emission): a createMedicalCase that commits emits exactly one
\* MedicalCaseCreated(caseId, caller); a verifyDiagnosis that commits emits
\* exactly one DiagnosisVerified(caseId, value) with the value just stored
\* in decryptedDiagnosis; a call that fails, and a step that is no call,
\* emits nothing; and no more than one DiagnosisVerified is ever emitted for
\* one caseId.
C14_EventEmission ==
    [][ /\ \A id \in CaseIdSet :
              /\ Commits("create", id)
                    => events' = Append(events,
                           [ name |-> "MedicalCaseCreated", caseId |-> id,
                             specialist |-> lastCall'.sender ])
              /\ Commits("verify", id)
                    => events' = Append(events,
                           [ name |-> "DiagnosisVerified", caseId |-> id,
                             decryptedDiagnosis |->
                                 medicalCases'[id].decryptedDiagnosis ])
              /\ VerifiedEvents(id) <= 1
              /\ VerifiedEvents(id)' <= 1
        /\ history' = history => events' = events
        /\ \A sender \in AddressSet, caseId \in CaseIdSet,
              patientId \in PatientIdSet,
              encryptedDiagnosis \in ExternalHandleSet,
              inputProof \in InputProofSet,
              caseIdentifier \in IdentifierSet,
              medicalHistory \in HistorySet :
              createOutcome(caseId, encryptedDiagnosis, inputProof) # "Ok"
                => createEffect(sender, caseId, patientId, encryptedDiagnosis,
                                inputProof, caseIdentifier,
                                medicalHistory).events = events
        /\ \A caseId \in CaseIdSet, clear \in ClearSet,
              proof \in DecryptionProofSet :
              verifyOutcome(caseId, clear, proof) # "Ok"
                => verifyEffect(caseId, clear, proof).events = events ]_vars

\* C14 witness: the log holds the creation of a case by doctorY and then
\* its verification with the value 9, which is the value stored.
C14_Witness ==
    \E id \in CaseIdSet :
        /\ events = << [ name |-> "MedicalCaseCreated", caseId |-> id,
                         specialist |-> "doctorY" ],
                       [ name |-> "DiagnosisVerified", caseId |-> id,
                         decryptedDiagnosis |-> 9 ] >>
        /\ medicalCases[id].decryptedDiagnosis = 9
        /\ lastCall.op = "verify"

\* C15 (query surface): getMedicalCase, getEncryptedDiagnosis, getAllCaseIds
\* and isAvailable are functions of the contract's state and write nothing;
\* getMedicalCase and getEncryptedDiagnosis answer or fail with NotFound;
\* getAllCaseIds never fails: it returns a sequence of ids, one per create
\* that committed, and the empty sequence when no case has been created;
\* isAvailable returns true in every reachable state.
C15_QuerySurface ==
    /\ isAvailable = TRUE
    /\ getAllCaseIds \in Seq(CaseIdSet)
    /\ Len(getAllCaseIds) = Len(CreatedOrder)
    /\ (\A id \in CaseIdSet : ~EverCreated(id)) => getAllCaseIds = <<>>
    /\ \A id \in CaseIdSet :
          /\ getMedicalCase(id).result \in {"Ok", "NotFound"}
          /\ getEncryptedDiagnosis(id).result \in {"Ok", "NotFound"}
          /\ getMedicalCase(id).result = getEncryptedDiagnosis(id).result

\* C15 witness: a block has passed and no case has been created yet, and
\* getAllCaseIds answers with the empty sequence.
C15_Witness ==
    /\ lastCall.op = "block"
    /\ \A id \in CaseIdSet : ~EverCreated(id)
    /\ getAllCaseIds = <<>>
    /\ isAvailable

\* C16 (records are deleted after verification): once a verifyDiagnosis on
\* an id has committed, the record of that id is no longer stored and no
\* longer retrievable.
C16_DeletedAfterVerification ==
    \A id \in CaseIdSet :
        CommitCount("verify", id) > 0
          => /\ medicalCases[id] = EmptyCase
             /\ getMedicalCase(id).result = "NotFound"
             /\ getEncryptedDiagnosis(id).result = "NotFound"

\* C17 (create guard ordering): createMedicalCase checks AlreadyExists before
\* it calls the ciphertext authority: on a caseId that a create has stored,
\* the call fails with AlreadyExists whether or not the ciphertext and its
\* proof are valid, FHE.fromExternal is not called, and no grant is made.
C17_CreateGuardOrdering ==
    \A id \in CaseIdSet :
        EverCreated(id)
          => \A sender \in AddressSet, patientId \in PatientIdSet,
                encryptedDiagnosis \in ExternalHandleSet,
                inputProof \in InputProofSet,
                caseIdentifier \in IdentifierSet,
                medicalHistory \in HistorySet :
                LET after == createEffect(sender, id, patientId,
                                          encryptedDiagnosis, inputProof,
                                          caseIdentifier, medicalHistory)
                IN  /\ createOutcome(id, encryptedDiagnosis, inputProof)
                         = "AlreadyExists"
                    /\ admitCalls(id, encryptedDiagnosis, inputProof) = <<>>
                    /\ after.allowedThis = allowedThis
                    /\ after.publicHandles = publicHandles

\* C18 (verify guard ordering): verifyDiagnosis runs its checks in the order
\* NotFound, AlreadyVerified, InvalidAttestation, malformed cleartext: on an
\* id never created it fails with NotFound and on a verified case with
\* AlreadyVerified, in both cases whatever the proof and the cleartext are
\* and without a call to FHE.checkSignatures; on a case that exists and is
\* not verified a proof that does not match fails with InvalidAttestation
\* even when the cleartext is malformed as well, and a malformed cleartext
\* is reported only under a proof that matches.
C18_VerifyGuardOrdering ==
    \A id \in CaseIdSet, clear \in ClearSet, proof \in DecryptionProofSet :
        LET outcome == verifyOutcome(id, clear, proof)
            calls == attestCalls(id, clear, proof)
            matches == /\ proof.h = medicalCases[id].encryptedDiagnosis
                       /\ proof.clear = clear
        IN  /\ ~EverCreated(id) => outcome = "NotFound" /\ calls = <<>>
            /\ medicalCases[id].isVerified
                  => outcome = "AlreadyVerified" /\ calls = <<>>
            /\ (CaseExists(id) /\ ~medicalCases[id].isVerified)
                  => /\ calls = << [ cts |-> <<medicalCases[id]
                                                 .encryptedDiagnosis>>,
                                     clear |-> clear, proof |-> proof ] >>
                     /\ ~matches => outcome = "InvalidAttestation"
                     /\ (matches /\ ~CanDecodeUint32(clear))
                           => outcome = "MalformedInput"
                     /\ (matches /\ CanDecodeUint32(clear))
                           => outcome = "Ok"

\* C18 witness: one case is verified and the other is stored and not
\* verified; on the first a bad proof with a malformed cleartext is
\* answered AlreadyVerified, on the second InvalidAttestation.
C18_Witness ==
    \E id, other \in CaseIdSet, clear \in ClearSet,
       proof \in DecryptionProofSet :
        /\ medicalCases[id].isVerified
        /\ CaseExists(other)
        /\ ~medicalCases[other].isVerified
        /\ ~CanDecodeUint32(clear)
        /\ proof.clear # clear
        /\ verifyOutcome(id, clear, proof) = "AlreadyVerified"
        /\ verifyOutcome(other, clear, proof) = "InvalidAttestation"

\* C19 (independence of distinct cases): a call on caseId a that commits
\* leaves the record of every other caseId b as it was, and with it what
\* every view and every call on b answers and the record b would get from
\* it; so calls on a and calls on b give the same outcomes and the same
\* final records in either order. In the id list the step only appends a.
C19_Independence ==
    [][ \A a \in CaseIdSet :
          (Commits("create", a) \/ Commits("verify", a))
            => /\ IsPrefix(caseIds, caseIds')
               /\ \A i \in (DOMAIN caseIds') \ (DOMAIN caseIds) :
                     caseIds'[i] = a
               /\ \A b \in CaseIdSet \ {a} :
                     /\ medicalCases'[b] = medicalCases[b]
                     /\ getMedicalCase(b)' = getMedicalCase(b)
                     /\ getEncryptedDiagnosis(b)' = getEncryptedDiagnosis(b)
                     /\ \A clear \in ClearSet, proof \in DecryptionProofSet :
                           /\ verifyOutcome(b, clear, proof)'
                                 = verifyOutcome(b, clear, proof)
                           /\ verifyEffect(b, clear, proof)'.medicalCases[b]
                                 = verifyEffect(b, clear, proof)
                                       .medicalCases[b]
                           /\ verifyEffect(b, clear, proof)'.medicalCases[a]
                                 = medicalCases'[a]
                     /\ \A sender \in AddressSet, patientId \in PatientIdSet,
                           encryptedDiagnosis \in ExternalHandleSet,
                           inputProof \in InputProofSet,
                           caseIdentifier \in IdentifierSet,
                           medicalHistory \in HistorySet :
                           /\ createOutcome(b, encryptedDiagnosis,
                                            inputProof)'
                                 = createOutcome(b, encryptedDiagnosis,
                                                 inputProof)
                           /\ createEffect(sender, b, patientId,
                                  encryptedDiagnosis, inputProof,
                                  caseIdentifier, medicalHistory)'
                                      .medicalCases[b]
                                 = createEffect(sender, b, patientId,
                                       encryptedDiagnosis, inputProof,
                                       caseIdentifier, medicalHistory)
                                           .medicalCases[b]
                           /\ createEffect(sender, b, patientId,
                                  encryptedDiagnosis, inputProof,
                                  caseIdentifier, medicalHistory)'
                                      .medicalCases[a]
                                 = medicalCases'[a] ]_vars

\* C19 witness: A and B were created with the same ciphertext, B first, and
\* then A was verified and B was not; the list keeps B before A.
C19_Witness ==
    /\ history = << Committed("create", "B"), Committed("create", "A"),
                    Committed("verify", "A") >>
    /\ medicalCases["A"].encryptedDiagnosis
          = medicalCases["B"].encryptedDiagnosis
    /\ medicalCases["A"].isVerified
    /\ CaseExists("B")
    /\ ~medicalCases["B"].isVerified
    /\ caseIds = <<"B", "A">>

\* C20 (no unrecoverable state): in every reachable state, on every case
\* that has been created and is not verified, a verifyDiagnosis carrying a
\* well-formed cleartext and the attestation for the case's stored handle
\* and that cleartext succeeds, whatever failed attempts came before.
C20_NoUnrecoverableState ==
    \A id \in CaseIdSet :
        (EverCreated(id) /\ ~medicalCases[id].isVerified)
          => \A clear \in ClearSet :
                CanDecodeUint32(clear)
                  => verifyOutcome(id, clear,
                         [ h |-> medicalCases[id].encryptedDiagnosis,
                           clear |-> clear ]) = "Ok"

\* C21 (no decrypted value on an unverified case): in every reachable state
\* a case with isVerified = FALSE has decryptedDiagnosis = 0; and
\* decryptedDiagnosis is written by one step only, the verifyDiagnosis on
\* that id that commits and takes isVerified from FALSE to TRUE, of which
\* there is at most one per id.
C21_DecryptedOnlyWhenVerified ==
    [][ \A id \in CaseIdSet :
          /\ ~medicalCases[id].isVerified
                => medicalCases[id].decryptedDiagnosis = 0
          /\ ~medicalCases'[id].isVerified
                => medicalCases'[id].decryptedDiagnosis = 0
          /\ medicalCases'[id].decryptedDiagnosis
                # medicalCases[id].decryptedDiagnosis
                => /\ Commits("verify", id)
                   /\ ~medicalCases[id].isVerified
                   /\ medicalCases'[id].isVerified
          /\ Commits("verify", id)
                => /\ ~medicalCases[id].isVerified
                   /\ medicalCases'[id].isVerified
                   /\ CommitCount("verify", id) = 0 ]_vars

\* C21 witness: one case is verified with the value 9 and another is stored
\* and not verified, with the value 0.
C21_Witness ==
    \E id, other \in CaseIdSet :
        /\ medicalCases[id].isVerified
        /\ medicalCases[id].decryptedDiagnosis = 9
        /\ CaseExists(other)
        /\ ~medicalCases[other].isVerified
        /\ medicalCases[other].decryptedDiagnosis = 0

\* An event of the kind createMedicalCase emits.
IsCreatedEvent(e) ==
    e.name = "MedicalCaseCreated"

\* The caseIds of the MedicalCaseCreated events in this log, in the order
\* they were emitted.
CreatedEventIds(log) ==
    LET created == SelectSeq(log, IsCreatedEvent)
    IN  [i \in 1..Len(created) |-> created[i].caseId]

\* C23 (list mirrors the created events): in every reachable state caseIds
\* equals, element for element and in order, the sequence of the caseIds of
\* the MedicalCaseCreated events emitted so far, and a step appends to the
\* list exactly when it emits such an event, for the same id.
C23_ListMirrorsCreatedEvents ==
    [][ /\ caseIds = CreatedEventIds(events)
        /\ caseIds' = CreatedEventIds(events')
        /\ caseIds' # caseIds
              => \E id \in CaseIdSet, sender \in AddressSet :
                    /\ caseIds' = Append(caseIds, id)
                    /\ events' = Append(events,
                           [ name |-> "MedicalCaseCreated", caseId |-> id,
                             specialist |-> sender ])
        /\ caseIds' = caseIds
              => CreatedEventIds(events') = CreatedEventIds(events) ]_vars

\* Two different ids were created and a verification event lies in the log
\* between or after their creation events.
C23_Witness ==
    /\ Len(caseIds) = 2
    /\ caseIds[1] # caseIds[2]
    /\ Len(events) = 3
    /\ \E i \in DOMAIN events : events[i].name = "DiagnosisVerified"

\* C22 (the UI drives the registry's own operations): every contract call a
\* handler of the UI makes (to list the ids, read a record, read the
\* ciphertext handle, create a record, submit a verification) names an
\* operation the registry contract exposes, with as many arguments.
C22_UICallsRegistryOperations ==
    \A call \in contractCalls : Exposed(call)

\* C24 (decryptData and verified records): a decryptData that read the
\* record as verified returns the stored decrypted value and neither submits
\* nor calls the verification; a decryptData submits the verification only
\* after it read the record as unverified, and one that made its read
\* calls verifyDecryption only then.
C24_DecryptDataSkipsVerified ==
    [][ decryptReturn' # decryptReturn
          => /\ decryptReturn'.read = "verified"
                  => /\ ~decryptReturn'.isNull
                     /\ decryptReturn'.value = decryptReturn'.stored
                     /\ ~decryptReturn'.submitted
                     /\ CallVerifyDecryption \notin contractCalls'
             /\ decryptReturn'.submitted
                  => /\ decryptReturn'.read = "unverified"
                     /\ CallVerifyDecryption \in contractCalls'
             /\ (decryptReturn'.read # "none"
                   /\ CallVerifyDecryption \in contractCalls')
                  => decryptReturn'.read = "unverified" ]_vars

\* A decryptData read a verified record holding 7 and returned 7 without a
\* verification.
C24_Witness ==
    /\ decryptReturn.read = "verified"
    /\ decryptReturn.stored = 7
    /\ decryptReturn.value = 7
    /\ ~decryptReturn.isNull
    /\ ~decryptReturn.submitted
    /\ contractCalls = {CallGetBusinessData}

\* C25 (one initialize() at a time): at most one initialize() call is in
\* flight in every reachable state, fhevmInitializing is set while one is,
\* and a run of the effect starts one only when none is in flight, whatever
\* the order of renders, wallet changes and settlements.
C25_SingleInitializeInFlight ==
    [][ /\ initializeInFlight <= 1
        /\ initializeInFlight' <= 1
        /\ initializeInFlight' > 0 => fhevmInitializing'
        /\ initializeInFlight' > initializeInFlight
              => /\ initializeInFlight = 0
                 /\ ~fhevmInitializing ]_vars

\* An initialize() is in flight, the wallet has disconnected meanwhile, and
\* the effect has run again for this render and returned at a guard.
C25_Witness ==
    /\ initializeInFlight = 1
    /\ fhevmInitializing
    /\ ~isConnected
    /\ effectDeps = CurrentDeps

\* C26 (initialisation terminates): while the wallet stays connected, an
\* initialize() that failed is not followed by another initialize() that
\* the effect starts on its own, so the attempts are finitely many.
C26_NoRetryAfterFailure ==
    [][ initializeInFlight' > initializeInFlight
          => ~failedSinceChange ]_vars

\* C27 (display of a verified record): for a record with isVerified = true
\* and any decrypted value, 0 included, the detail view shows the verified
\* decrypted value, not the "FHE Encrypted" placeholder, and the chart is
\* drawn from the decrypted value.
C27_VerifiedRecordShowsValue ==
    (selectedRecord # NoRecord /\ selectedRecord.isVerified)
        => /\ DetailAgeText(selectedRecord)
                = [kind |-> "Verified", years |-> selectedRecord.decryptedValue]
           /\ ChartCondition(selectedRecord) = selectedRecord.decryptedValue

====
